---- MODULE Spec2Model ----
(***************************************************************************)
(* Model of the request pipeline of symptom-tracker-backend (src/main.go): *)
(*   rateLimitMiddleware -> corsMiddleware -> mainMux                      *)
(*       -> /db/          TokenAuthMiddleware -> dbMux                     *)
(*       -> /aws-cognito/ cognitoMux (the eight identity handlers)         *)
(*                                                                         *)
(* Two specifications share the limiter:                                   *)
(*   LimiterSpec  many requests that wait at the limiter at the same time; *)
(*                what is behind the limiter is only counted.              *)
(*   Spec         one request followed through the whole pipeline, with    *)
(*                the identity provider's session state.  A request        *)
(*                touches shared state at most twice (limiter.Allow and    *)
(*                one identity-provider call); every other step reads and  *)
(*                writes the request's own data, so following requests one *)
(*                at a time loses no behaviour of those shared objects.    *)
(***************************************************************************)
EXTENDS Integers, Sequences, FiniteSets, TLC

VARIABLES
    now,        \* the clock, in ticks
    tokens,     \* limiter: tokens in the bucket, scaled by TicksPerSecond
    last,       \* limiter: the time tokens was last updated
    waiting,    \* LimiterSpec: requests that arrived and have not called Allow
    passed,     \* LimiterSpec: requests handed to next.ServeHTTP
    refused,    \* LimiterSpec: requests answered 429
    lastCall,   \* LimiterSpec: the time of the latest Allow call (-1: none)
    winStart,   \* LimiterSpec: the start of the observed window
    winCount,   \* LimiterSpec: requests admitted since winStart
    cur,        \* Spec: the request followed through the pipeline
    idp,        \* Spec: the identity provider's refresh-token sessions
    jar         \* Spec: the cookies held by a client that applies each response

vars == <<now, tokens, last, waiting, passed, refused, lastCall, winStart,
          winCount, cur, idp, jar>>

limVars == <<waiting, passed, refused, lastCall, winStart, winCount>>

----------------------------------------------------------------------------
(* Bounds of the model *)

\* Clock resolution: ticks per token period (1/15 s).
TicksPerToken == 2
\* The clock stops here.
MaxTime == 3
\* Requests that arrive in a LimiterSpec run.
MaxArrivals == 7
\* Refresh tokens the identity provider issues in a run.
MaxSessions == 1

----------------------------------------------------------------------------
(* The limiter: rate.NewLimiter(rate.Limit(15), 5) *)

Rate == 15
Burst == 5

TicksPerSecond == Rate * TicksPerToken

Min(a, b) == IF a <= b THEN a ELSE b

\* One whole token, in the scale of the variable tokens.
OneToken == TicksPerSecond

\* A bug: the refill is not capped at Burst.
advanceUncapped(t) == tokens + (t - last) * Rate

\* Limiter.advance: the bucket at time t, refilled at Rate tokens per second
\* since last and capped at Burst.
advance(t) == Min(Burst * OneToken, tokens + (t - last) * Rate)

\* A bug: the token of an admitted request is not taken out of the bucket.
AllowNoDebit(ok) ==
    /\ ok = (advance(now) >= OneToken)
    /\ IF ok THEN tokens' = advance(now) /\ last' = now
             ELSE UNCHANGED <<tokens, last>>

\* limiter.Allow(), under the limiter's mutex: one token is reserved at the
\* current time if the refilled bucket holds one; a refused call leaves the
\* limiter as it was.
Allow(ok) ==
    /\ ok = (advance(now) >= OneToken)
    /\ IF ok THEN tokens' = advance(now) - OneToken /\ last' = now
             ELSE UNCHANGED <<tokens, last>>

\* Time passes.
Tick ==
    /\ now < MaxTime
    /\ now' = now + 1
    /\ UNCHANGED <<tokens, last, limVars, cur, idp, jar>>

----------------------------------------------------------------------------
(* Requests and responses *)

StatusOK == 200
StatusCreated == 201
StatusBadRequest == 400
StatusUnauthorized == 401
StatusNotFound == 404
StatusMethodNotAllowed == 405
StatusTooManyRequests == 429
StatusInternalServerError == 500
\* No response was written: net/http recovered a panic of the handler and
\* closed the connection.
NoStatus == 0

SP == " "
TAB == "\t"

Methods == {"GET", "POST", "OPTIONS"}

Origins == {"https://myhealthtrackers.com", "http://localhost:5173",
            "https://unlisted.example", ""}

\* URL paths, as their segments.
DbPaths == {<<"db", "health">>, <<"db", "user">>, <<"db", "nope">>}
OtherPaths == {<<"nope">>}

\* Authorization header values, as sequences of words, spaces and tabs;
\* <<>> is the absent header.  net/http trims the value of a header line, so
\* no value starts or ends with a space.
AuthHeaders == {
    <<>>,
    <<"Bearer", SP, "tok">>,
    <<"Bearer">>,
    <<"tok">>,
    <<"bearer", SP, "tok">>,
    <<"Basic", SP, "tok">>,
    <<"Bearer", SP, "tok", SP, "tok">>,
    <<"Bearer", SP, SP, "tok">>,
    <<"Bearer", TAB, "tok">>,
    <<"Bearer", "tok">> }

\* The subject of the one registered user, and a subject the provider does
\* not know.
TheSub == "sub-1"
Subs == {"", TheSub, "sub-x"}

\* Refresh tokens are numbered as the provider issues them; 0: no cookie.
RefreshTokens == 0..MaxSessions

\* JSON bodies of a request: undecodable, data the provider accepts (the
\* registered user's credentials, a valid code), data it rejects.
Bodies == {"malformed", "good", "bad"}

NoBody == "none"

\* The requests of the model.  A field the route never reads has its default.
Requests ==
    [method : Methods, origin : Origins, path : DbPaths, auth : AuthHeaders,
     rt : {0}, sub : {""}, body : {NoBody}]
    \cup
    [method : Methods, origin : Origins,
     path : {<<"aws-cognito", "sign-in">>}, auth : {<<>>},
     rt : {0}, sub : {""}, body : Bodies]
    \cup
    [method : Methods, origin : Origins,
     path : {<<"aws-cognito", "refresh-token">>}, auth : {<<>>},
     rt : RefreshTokens, sub : Subs, body : {NoBody}]
    \cup
    [method : Methods, origin : Origins,
     path : {<<"aws-cognito", "sign-out">>}, auth : {<<>>},
     rt : RefreshTokens, sub : Subs, body : {NoBody}]
    \cup
    [method : Methods, origin : Origins,
     path : {<<"aws-cognito", "signup">>, <<"aws-cognito", "confirm-signup">>,
             <<"aws-cognito", "request-verification-code">>,
             <<"aws-cognito", "forgot-password">>,
             <<"aws-cognito", "confirm-forgot-password">>},
     auth : {<<>>}, rt : {0}, sub : {""}, body : Bodies]
    \cup
    [method : Methods, origin : Origins,
     path : {<<"aws-cognito", "nope">>} \cup OtherPaths, auth : {<<>>},
     rt : {0}, sub : {""}, body : {NoBody}]

NoReq == [method |-> "GET", origin |-> "", path |-> <<"nope">>, auth |-> <<>>,
          rt |-> 0, sub |-> "", body |-> NoBody]

\* A response: status, the CORS headers ("" is an absent header), the kind of
\* body and the names of its JSON fields, the two Set-Cookie headers ("none",
\* "fresh" or "expired") and the attributes they are set with.
NoResp == [status |-> NoStatus, acao |-> "", acac |-> "", acam |-> "",
           acah |-> "", body |-> NoBody, fields |-> {},
           setRT |-> "none", rtValue |-> 0, setSub |-> "none", subValue |-> "",
           cookieAttrs |-> {}]

\* The request in the pipeline: where it is (pc), the request, the path left
\* after StripPrefix, whether its context holds the claims, the outcomes of
\* the key-set fetch and of jwt.Parse, what the identity provider answered
\* ("none": not called; "fault": the call failed; "rejected"; or the kind of
\* its result), whether the secret hash went with the provider call, the
\* response so far, and the calls made for it so far, in order.
Idle == [pc |-> "idle", req |-> NoReq, path |-> <<>>, ctx |-> FALSE,
         fetch |-> "none", parse |-> "none", reply |-> "none",
         hashSent |-> FALSE, resp |-> NoResp, trace |-> <<>>]

\* http.Error: the status and a text body; the request ends.
HttpError(c, code) ==
    [c EXCEPT !.pc = "done", !.resp.status = code, !.resp.body = "error"]

Called(c, what) == [c EXCEPT !.trace = Append(@, what)]

Has(c, what) == \E i \in 1..Len(c.trace) : c.trace[i] = what

\* The server accepts a request.
Accept ==
    /\ cur.pc = "idle"
    /\ \E r \in Requests :
         cur' = [Idle EXCEPT !.pc = "limit", !.req = r, !.path = r.path]
    /\ UNCHANGED <<now, tokens, last, limVars, idp, jar>>

\* The response has been sent; the connection serves the next request.
\* What a client holds after applying the Set-Cookie headers of a response:
\* a fresh cookie is stored, an expired one is removed (0 and "": no cookie).
ApplyCookies(j, resp) ==
    [rt  |-> IF resp.setRT = "fresh" THEN resp.rtValue
             ELSE IF resp.setRT = "expired" THEN 0 ELSE j.rt,
     sub |-> IF resp.setSub = "fresh" THEN resp.subValue
             ELSE IF resp.setSub = "expired" THEN "" ELSE j.sub]

Deliver ==
    /\ cur.pc = "done"
    /\ cur' = Idle
    /\ jar' = ApplyCookies(jar, cur.resp)
    /\ UNCHANGED <<now, tokens, last, limVars, idp>>

----------------------------------------------------------------------------
(* rateLimitMiddleware *)

\* The request after the limiter's answer ok.
\* A bug: the return after the 429 is missing.
RateLimitedNoReturn(c, ok) ==
    IF ~ok THEN [HttpError(Called(c, "limiter"), StatusTooManyRequests)
                   EXCEPT !.pc = "cors"]
           ELSE [Called(c, "limiter") EXCEPT !.pc = "cors"]

RateLimited(c, ok) ==
    IF ~ok THEN HttpError(Called(c, "limiter"), StatusTooManyRequests)
           ELSE [Called(c, "limiter") EXCEPT !.pc = "cors"]

rateLimitMiddleware ==
    /\ cur.pc = "limit"
    /\ \E ok \in BOOLEAN :
         /\ Allow(ok)
         /\ cur' = RateLimited(cur, ok)
    /\ UNCHANGED <<now, limVars, idp, jar>>

----------------------------------------------------------------------------
(* corsMiddleware *)

allowedOrigins == {"https://symptom-log.netlify.app", "https://myhealthtrackers.com",
                   "http://localhost:5173", "http://127.0.0.1:5173"}

\* A bug: a preflight is passed on to the next handler.
CorsNoPreflight(c) ==
    [Called(c, "cors") EXCEPT
       !.resp.acao = IF c.req.origin \in allowedOrigins THEN c.req.origin ELSE "",
       !.resp.acac = "true",
       !.resp.acam = "GET, POST ",
       !.resp.acah = "Content-Type, Authorization",
       !.pc = "mux"]

\* A bug: the production origin is answered to every allowed origin.
CorsFixedOrigin(c) ==
    LET h == [Called(c, "cors") EXCEPT
                !.resp.acao = IF c.req.origin \in allowedOrigins
                                THEN "https://symptom-log.netlify.app" ELSE "",
                !.resp.acac = "true",
                !.resp.acam = "GET, POST ",
                !.resp.acah = "Content-Type, Authorization"]
    IN  IF c.req.method = "OPTIONS"
          THEN [h EXCEPT !.pc = "done", !.resp.status = StatusOK]
          ELSE [h EXCEPT !.pc = "mux"]

\* A bug: credentials are allowed only to an allowed origin.
CorsCredentialsIfAllowed(c) ==
    LET h == [Called(c, "cors") EXCEPT
                !.resp.acao = IF c.req.origin \in allowedOrigins
                                THEN c.req.origin ELSE "",
                !.resp.acac = IF c.req.origin \in allowedOrigins
                                THEN "true" ELSE "",
                !.resp.acam = "GET, POST ",
                !.resp.acah = "Content-Type, Authorization"]
    IN  IF c.req.method = "OPTIONS"
          THEN [h EXCEPT !.pc = "done", !.resp.status = StatusOK]
          ELSE [h EXCEPT !.pc = "mux"]

\* The headers corsMiddleware sets, then the preflight short cut.
Cors(c) ==
    LET h == [Called(c, "cors") EXCEPT
                !.resp.acao = IF c.req.origin \in allowedOrigins
                                THEN c.req.origin ELSE "",
                !.resp.acac = "true",
                !.resp.acam = "GET, POST ",
                !.resp.acah = "Content-Type, Authorization"]
    IN  IF c.req.method = "OPTIONS"
          THEN [h EXCEPT !.pc = "done", !.resp.status = StatusOK]
          ELSE [h EXCEPT !.pc = "mux"]

corsMiddleware ==
    /\ cur.pc = "cors"
    /\ cur' = Cors(cur)
    /\ UNCHANGED <<now, tokens, last, limVars, idp, jar>>

----------------------------------------------------------------------------
(* mainMux: "/db/" -> StripPrefix -> authMux, "/aws-cognito/" -> StripPrefix
   -> cognitoMux, "/" -> 404 *)

\* A bug: "/db/" is routed to dbMux itself, not to authMux.
MainMuxNoAuth(c) ==
    LET m == Called(c, "mainMux")
    IN  IF c.path[1] = "db"
          THEN [m EXCEPT !.pc = "dbmux", !.path = Tail(c.path)]
        ELSE IF c.path[1] = "aws-cognito"
          THEN [m EXCEPT !.pc = "cognito", !.path = Tail(c.path)]
        ELSE HttpError(m, StatusNotFound)

MainMux(c) ==
    LET m == Called(c, "mainMux")
    IN  IF c.path[1] = "db"
          THEN [m EXCEPT !.pc = "auth", !.path = Tail(c.path)]
        ELSE IF c.path[1] = "aws-cognito"
          THEN [m EXCEPT !.pc = "cognito", !.path = Tail(c.path)]
        ELSE HttpError(m, StatusNotFound)

mainMux ==
    /\ cur.pc = "mux"
    /\ cur' = MainMux(cur)
    /\ UNCHANGED <<now, tokens, last, limVars, idp, jar>>

----------------------------------------------------------------------------
(* TokenAuthMiddleware *)

\* strings.Split(h, " "): the parts of h between its spaces.
Split(h) ==
    LET parts[i \in 0..Len(h)] ==
          IF i = 0 THEN << <<>> >>
          ELSE IF h[i] = SP THEN Append(parts[i - 1], <<>>)
          ELSE [parts[i - 1] EXCEPT ![Len(parts[i - 1])] = Append(@, h[i])]
    IN  parts[Len(h)]

FetchOutcomes == {"ok", "err"}
\* jwt.Parse fails, or yields a token whose PrivateClaims() is nil, or one
\* with claims.
ParseOutcomes == {"err", "nil", "claims"}

\* A bug: the missing header is not told from a malformed one.
TokenAuthNoMissingCheck(c, fetch, parse) ==
    LET a == Called(c, "TokenAuthMiddleware")
        splitAuthHeader == Split(c.req.auth)
        f == [Called(a, "jwk.Fetch") EXCEPT !.fetch = fetch]
        t == [Called(f, "jwt.Parse") EXCEPT !.parse = parse]
    IN  IF Len(splitAuthHeader) # 2 \/ splitAuthHeader[1] # <<"Bearer">>
          THEN HttpError(a, StatusBadRequest)
        ELSE IF fetch = "err"
          THEN HttpError(f, StatusInternalServerError)
        ELSE IF parse = "err"
          THEN HttpError(t, StatusBadRequest)
        ELSE IF parse = "nil"
          THEN HttpError(t, StatusUnauthorized)
        ELSE [Called(t, "WithValue") EXCEPT !.ctx = TRUE, !.pc = "dbmux"]

\* A bug: the scheme is not compared with "Bearer".
TokenAuthAnyScheme(c, fetch, parse) ==
    LET a == Called(c, "TokenAuthMiddleware")
        splitAuthHeader == Split(c.req.auth)
        f == [Called(a, "jwk.Fetch") EXCEPT !.fetch = fetch]
        t == [Called(f, "jwt.Parse") EXCEPT !.parse = parse]
    IN  IF c.req.auth = <<>>
          THEN HttpError(a, StatusUnauthorized)
        ELSE IF Len(splitAuthHeader) # 2
          THEN HttpError(a, StatusBadRequest)
        ELSE IF fetch = "err"
          THEN HttpError(f, StatusInternalServerError)
        ELSE IF parse = "err"
          THEN HttpError(t, StatusBadRequest)
        ELSE IF parse = "nil"
          THEN HttpError(t, StatusUnauthorized)
        ELSE [Called(t, "WithValue") EXCEPT !.ctx = TRUE, !.pc = "dbmux"]

\* TokenAuthMiddleware for a request whose key-set fetch would end as fetch and
\* whose token jwt.Parse would treat as parse.
\* A bug: the token is parsed although the key set could not be fetched.
TokenAuthIgnoresFetchError(c, fetch, parse) ==
    LET a == Called(c, "TokenAuthMiddleware")
        splitAuthHeader == Split(c.req.auth)
        f == [Called(a, "jwk.Fetch") EXCEPT !.fetch = fetch]
        t == [Called(f, "jwt.Parse") EXCEPT !.parse = parse]
    IN  IF c.req.auth = <<>>
          THEN HttpError(a, StatusUnauthorized)
        ELSE IF Len(splitAuthHeader) # 2 \/ splitAuthHeader[1] # <<"Bearer">>
          THEN HttpError(a, StatusBadRequest)
        ELSE IF parse = "err"
          THEN HttpError(t, StatusBadRequest)
        ELSE IF parse = "nil"
          THEN HttpError(t, StatusUnauthorized)
        ELSE [Called(t, "WithValue") EXCEPT !.ctx = TRUE, !.pc = "dbmux"]

TokenAuth(c, fetch, parse) ==
    LET a == Called(c, "TokenAuthMiddleware")
        splitAuthHeader == Split(c.req.auth)
        f == [Called(a, "jwk.Fetch") EXCEPT !.fetch = fetch]
        t == [Called(f, "jwt.Parse") EXCEPT !.parse = parse]
    IN  IF c.req.auth = <<>>
          THEN HttpError(a, StatusUnauthorized)
        ELSE IF Len(splitAuthHeader) # 2 \/ splitAuthHeader[1] # <<"Bearer">>
          THEN HttpError(a, StatusBadRequest)
        ELSE IF fetch = "err"
          THEN HttpError(f, StatusInternalServerError)
        ELSE IF parse = "err"
          THEN HttpError(t, StatusBadRequest)
        ELSE IF parse = "nil"
          THEN HttpError(t, StatusUnauthorized)
        ELSE [Called(t, "WithValue") EXCEPT !.ctx = TRUE, !.pc = "dbmux"]

TokenAuthMiddleware ==
    /\ cur.pc = "auth"
    /\ \E fetch \in FetchOutcomes, parse \in ParseOutcomes :
         cur' = TokenAuth(cur, fetch, parse)
    /\ UNCHANGED <<now, tokens, last, limVars, idp, jar>>

----------------------------------------------------------------------------
(* dbMux, behind TokenAuthMiddleware *)

\* The patterns of dbMux the model keeps: "GET /health", "GET /user".
dbRoutes == {<<"health">>, <<"user">>}

\* No pattern matches: 404 for an unknown path, 405 for a known path asked
\* with another method.
MuxMiss(c, routes, method) ==
    IF c.path \in routes /\ c.req.method # method
      THEN HttpError(c, StatusMethodNotAllowed)
      ELSE HttpError(c, StatusNotFound)

dbMuxMiss ==
    /\ cur.pc = "dbmux"
    /\ ~(cur.path \in dbRoutes /\ cur.req.method = "GET")
    /\ cur' = MuxMiss(Called(cur, "dbMux"), dbRoutes, "GET")
    /\ UNCHANGED <<now, tokens, last, limVars, idp, jar>>

\* GET /health: 200 and the value of ENV.
Health(c) ==
    [Called(c, "handler") EXCEPT
       !.pc = "done", !.resp.status = StatusOK, !.resp.body = "env"]

health ==
    /\ cur.pc = "dbmux"
    /\ cur.path = <<"health">> /\ cur.req.method = "GET"
    /\ cur' = Health(Called(cur, "dbMux"))
    /\ UNCHANGED <<now, tokens, last, limVars, idp, jar>>

\* GET /user: a data handler; it answers 200 with data or 500.
GetUser(c, status) ==
    [Called(c, "handler") EXCEPT
       !.pc = "done", !.resp.status = status,
       !.resp.body = IF status = StatusOK THEN "data" ELSE "error"]

getUser ==
    /\ cur.pc = "dbmux"
    /\ cur.path = <<"user">> /\ cur.req.method = "GET"
    /\ \E status \in {StatusOK, StatusInternalServerError} :
         cur' = GetUser(Called(cur, "dbMux"), status)
    /\ UNCHANGED <<now, tokens, last, limVars, idp, jar>>

----------------------------------------------------------------------------
(* The identity provider: the refresh tokens 1..issued exist, those up to
   revoked are invalid. *)

\* What AdminInitiateAuth returns besides an error: no AuthenticationResult
\* (a challenge), or one whose ID token is sound ("ok"), has not three
\* segments, has a payload that is not base64url, not JSON, or has no string
\* "sub".
ReplyKinds == {"ok", "challenge", "segments", "base64", "json", "nosub"}

NotCalled == [err |-> TRUE, kind |-> "none", rt |-> 0]
Fault == [err |-> TRUE, kind |-> "fault", rt |-> 0]
Rejected == [err |-> TRUE, kind |-> "rejected", rt |-> 0]

\* AdminInitiateAuth, ADMIN_USER_PASSWORD_AUTH: the registered user's
\* credentials open a session unless the call fails (fault).
PasswordAuth(body, fault, kind) ==
    IF fault \/ idp.issued >= MaxSessions THEN Fault
    ELSE IF body # "good" THEN Rejected
    ELSE IF kind = "challenge" THEN [err |-> FALSE, kind |-> kind, rt |-> 0]
    ELSE [err |-> FALSE, kind |-> kind, rt |-> idp.issued + 1]

\* AdminInitiateAuth, REFRESH_TOKEN_AUTH: a refresh token that was issued and
\* not revoked, with the secret hash of its owner.
RefreshAuth(rt, sub, fault) ==
    IF fault THEN Fault
    ELSE IF rt <= idp.revoked \/ rt > idp.issued \/ sub # TheSub THEN Rejected
    ELSE [err |-> FALSE, kind |-> "ok", rt |-> 0]

\* AdminUserGlobalSignOut: revokes every refresh token of the user.
GlobalSignOut(sub, fault) ==
    IF fault THEN Fault
    ELSE IF sub # TheSub THEN Rejected
    ELSE [err |-> FALSE, kind |-> "ok", rt |-> 0]

\* SignUp, ConfirmSignUp, ResendConfirmationCode, ForgotPassword,
\* ConfirmForgotPassword: accepted or rejected on the data sent.
AccountCall(body, fault) ==
    IF fault THEN Fault
    ELSE IF body # "good" THEN Rejected
    ELSE [err |-> FALSE, kind |-> "ok", rt |-> 0]

----------------------------------------------------------------------------
(* cognitoMux and its handlers *)

cognitoRoutes == {<<"sign-in">>, <<"refresh-token">>, <<"sign-out">>,
                  <<"signup">>, <<"confirm-signup">>,
                  <<"request-verification-code">>, <<"forgot-password">>,
                  <<"confirm-forgot-password">>}

\* The JSON fields of a SignInResponse.
SignInResponse == {"accessToken", "expiresIn", "tokenType", "idToken"}

\* The attributes of the cookies refreshToken and userSub.
CookieAttrs == {"Path=/", "HttpOnly", "Secure", "SameSite=None"}

\* The provider call of a handler, with the secret hash in its input.
CallWithHash(c, call, reply) ==
    [Called(c, call) EXCEPT !.reply = reply.kind, !.hashSent = TRUE]

cognitoMuxMiss ==
    /\ cur.pc = "cognito"
    /\ ~(cur.path \in cognitoRoutes /\ cur.req.method = "POST")
    /\ cur' = MuxMiss(Called(cur, "cognitoMux"), cognitoRoutes, "POST")
    /\ UNCHANGED <<now, tokens, last, limVars, idp, jar>>

\* The 200 of SignIn and RefreshToken: the SignInResponse as JSON.
\* A bug: the refresh token is a field of the body.
TokensResponseWithRefresh(c) ==
    [c EXCEPT !.pc = "done", !.resp.status = StatusOK, !.resp.body = "tokens",
              !.resp.fields = SignInResponse \cup {"refreshToken"}]

TokensResponse(c) ==
    [c EXCEPT !.pc = "done", !.resp.status = StatusOK, !.resp.body = "tokens",
              !.resp.fields = SignInResponse]

\* A nil pointer is dereferenced: the handler panics, net/http recovers and
\* closes the connection; nothing of the response is sent.
Panic(c) == [c EXCEPT !.pc = "done", !.resp = NoResp]

\* json.Marshal of a SignInResponse (two strings, a number, a string) does
\* not fail.
MarshalOutcomes == {TRUE}

\* SignIn, the body decoded: the secret hash, the provider call, the subject
\* out of the ID token, the two cookies, the response.
\* A bug: a failed provider call is made again.
SignInRetries(c, hashOK, reply, marshalOK) ==
    LET h == Called(c, "CalculateSecretHash")
        p == CallWithHash(h, "AdminInitiateAuth", reply)
    IN  IF c.req.body = "malformed" THEN HttpError(c, StatusBadRequest)
        ELSE IF ~hashOK THEN HttpError(h, StatusInternalServerError)
        ELSE IF reply.err
          THEN HttpError(Called(p, "AdminInitiateAuth"), StatusInternalServerError)
        ELSE IF reply.kind = "challenge" THEN Panic(p)
        ELSE IF reply.kind # "ok" THEN HttpError(p, StatusInternalServerError)
        ELSE LET k == [p EXCEPT
                        !.resp.setRT = "fresh", !.resp.rtValue = reply.rt,
                        !.resp.setSub = "fresh", !.resp.subValue = TheSub,
                        !.resp.cookieAttrs = CookieAttrs]
             IN  IF ~marshalOK THEN HttpError(k, StatusInternalServerError)
                               ELSE TokensResponse(k)

\* A bug: the cookies are set as soon as the provider has answered, before
\* the ID token is looked at.
SignInCookiesEarly(c, hashOK, reply, marshalOK) ==
    LET h == Called(c, "CalculateSecretHash")
        p == CallWithHash(h, "AdminInitiateAuth", reply)
        k == [p EXCEPT !.resp.setRT = "fresh", !.resp.rtValue = reply.rt,
                       !.resp.setSub = "fresh", !.resp.subValue = TheSub,
                       !.resp.cookieAttrs = CookieAttrs]
    IN  IF c.req.body = "malformed" THEN HttpError(c, StatusBadRequest)
        ELSE IF ~hashOK THEN HttpError(h, StatusInternalServerError)
        ELSE IF reply.err THEN HttpError(p, StatusInternalServerError)
        ELSE IF reply.kind = "challenge" THEN Panic(p)
        ELSE IF reply.kind # "ok" THEN HttpError(k, StatusInternalServerError)
        ELSE IF ~marshalOK THEN HttpError(k, StatusInternalServerError)
        ELSE TokensResponse(k)

SignInHandler(c, hashOK, reply, marshalOK) ==
    LET h == Called(c, "CalculateSecretHash")
        p == CallWithHash(h, "AdminInitiateAuth", reply)
    IN  IF c.req.body = "malformed" THEN HttpError(c, StatusBadRequest)
        ELSE IF ~hashOK THEN HttpError(h, StatusInternalServerError)
        ELSE IF reply.err THEN HttpError(p, StatusInternalServerError)
        ELSE IF reply.kind = "challenge" THEN Panic(p)
        ELSE IF reply.kind # "ok" THEN HttpError(p, StatusInternalServerError)
        ELSE LET k == [p EXCEPT
                        !.resp.setRT = "fresh", !.resp.rtValue = reply.rt,
                        !.resp.setSub = "fresh", !.resp.subValue = TheSub,
                        !.resp.cookieAttrs = CookieAttrs]
             IN  IF ~marshalOK THEN HttpError(k, StatusInternalServerError)
                               ELSE TokensResponse(k)

SignIn ==
    /\ cur.pc = "cognito"
    /\ cur.path = <<"sign-in">> /\ cur.req.method = "POST"
    /\ \E hashOK \in BOOLEAN, fault \in BOOLEAN, kind \in ReplyKinds,
          marshalOK \in MarshalOutcomes :
         LET c == Called(Called(cur, "cognitoMux"), "handler")
             called == c.req.body # "malformed" /\ hashOK
             reply == IF called THEN PasswordAuth(c.req.body, fault, kind)
                                ELSE NotCalled
         IN  /\ cur' = SignInHandler(c, hashOK, reply, marshalOK)
             /\ idp' = IF reply.rt > 0 THEN [idp EXCEPT !.issued = reply.rt]
                                       ELSE idp
    /\ UNCHANGED <<now, tokens, last, limVars, jar>>

\* A bug: the error of the provider call is not looked at.
RefreshTokenIgnoresError(c, hashOK, reply, marshalOK) ==
    LET h == Called(c, "CalculateSecretHash")
        p == CallWithHash(h, "AdminInitiateAuth", reply)
    IN  IF c.req.rt = 0 THEN HttpError(c, StatusInternalServerError)
        ELSE IF c.req.sub = "" THEN HttpError(c, StatusInternalServerError)
        ELSE IF ~hashOK THEN HttpError(h, StatusInternalServerError)
        ELSE IF ~marshalOK THEN HttpError(p, StatusInternalServerError)
        ELSE TokensResponse(p)

\* A bug: the userSub cookie is not required.
RefreshTokenNoSubCheck(c, hashOK, reply, marshalOK) ==
    LET h == Called(c, "CalculateSecretHash")
        p == CallWithHash(h, "AdminInitiateAuth", reply)
    IN  IF c.req.rt = 0 THEN HttpError(c, StatusInternalServerError)
        ELSE IF ~hashOK THEN HttpError(h, StatusInternalServerError)
        ELSE IF reply.err THEN HttpError(p, StatusInternalServerError)
        ELSE IF ~marshalOK THEN HttpError(p, StatusInternalServerError)
        ELSE TokensResponse(p)

\* RefreshToken: the two cookies, the secret hash of the subject, the provider
\* call, the response; no cookie is set.
RefreshTokenHandler(c, hashOK, reply, marshalOK) ==
    LET h == Called(c, "CalculateSecretHash")
        p == CallWithHash(h, "AdminInitiateAuth", reply)
    IN  IF c.req.rt = 0 THEN HttpError(c, StatusInternalServerError)
        ELSE IF c.req.sub = "" THEN HttpError(c, StatusInternalServerError)
        ELSE IF ~hashOK THEN HttpError(h, StatusInternalServerError)
        ELSE IF reply.err THEN HttpError(p, StatusInternalServerError)
        ELSE IF ~marshalOK THEN HttpError(p, StatusInternalServerError)
        ELSE TokensResponse(p)

RefreshToken ==
    /\ cur.pc = "cognito"
    /\ cur.path = <<"refresh-token">> /\ cur.req.method = "POST"
    /\ \E hashOK \in BOOLEAN, fault \in BOOLEAN, marshalOK \in MarshalOutcomes :
         LET c == Called(Called(cur, "cognitoMux"), "handler")
         IN  cur' = RefreshTokenHandler(c, hashOK,
                       RefreshAuth(c.req.rt, c.req.sub, fault), marshalOK)
    /\ UNCHANGED <<now, tokens, last, limVars, idp, jar>>

\* A bug: only the refreshToken cookie is expired.
SignOutKeepsSub(c, reply) ==
    LET p == [Called(c, "AdminUserGlobalSignOut") EXCEPT !.reply = reply.kind]
    IN  IF c.req.sub = "" THEN HttpError(c, StatusInternalServerError)
        ELSE IF reply.err THEN HttpError(p, StatusInternalServerError)
        ELSE [p EXCEPT !.pc = "done", !.resp.status = StatusOK,
                       !.resp.setRT = "expired", !.resp.rtValue = 0,
                       !.resp.cookieAttrs = CookieAttrs]

\* A bug: the cookies are expired before the provider's answer is looked at.
SignOutClearsFirst(c, reply) ==
    LET p == [Called(c, "AdminUserGlobalSignOut") EXCEPT !.reply = reply.kind]
        k == [p EXCEPT !.resp.setRT = "expired", !.resp.rtValue = 0,
                       !.resp.setSub = "expired", !.resp.subValue = "",
                       !.resp.cookieAttrs = CookieAttrs]
    IN  IF c.req.sub = "" THEN HttpError(c, StatusInternalServerError)
        ELSE IF reply.err THEN HttpError(k, StatusInternalServerError)
        ELSE [k EXCEPT !.pc = "done", !.resp.status = StatusOK]

\* SignOut: the userSub cookie, the provider's global sign-out, the two
\* expired cookies.
SignOutHandler(c, reply) ==
    LET p == [Called(c, "AdminUserGlobalSignOut") EXCEPT !.reply = reply.kind]
    IN  IF c.req.sub = "" THEN HttpError(c, StatusInternalServerError)
        ELSE IF reply.err THEN HttpError(p, StatusInternalServerError)
        ELSE [p EXCEPT !.pc = "done", !.resp.status = StatusOK,
                       !.resp.setRT = "expired", !.resp.rtValue = 0,
                       !.resp.setSub = "expired", !.resp.subValue = "",
                       !.resp.cookieAttrs = CookieAttrs]

SignOut ==
    /\ cur.pc = "cognito"
    /\ cur.path = <<"sign-out">> /\ cur.req.method = "POST"
    /\ \E fault \in BOOLEAN :
         LET c == Called(Called(cur, "cognitoMux"), "handler")
             called == c.req.sub # ""
             reply == IF called THEN GlobalSignOut(c.req.sub, fault) ELSE NotCalled
         IN  /\ cur' = SignOutHandler(c, reply)
             /\ idp' = IF reply.err THEN idp
                                    ELSE [idp EXCEPT !.revoked = idp.issued]
    /\ UNCHANGED <<now, tokens, last, limVars, jar>>

\* auth.CognitoClient.SignUp: the wrapper computes the secret hash and makes
\* the provider's SignUp call with it; any failure is its error.
AuthClientSignUp(c, hashOK, reply) ==
    LET h == Called(c, "CalculateSecretHash")
    IN  IF ~hashOK THEN h ELSE CallWithHash(h, "SignUp", reply)

\* signUp: decode the body, delegate to AuthClient.SignUp, 201 on success.
SignUpHandler(c, hashOK, reply) ==
    IF c.req.method # "POST" THEN HttpError(c, StatusMethodNotAllowed)
    ELSE IF c.req.body = "malformed" THEN HttpError(c, StatusBadRequest)
    ELSE LET p == AuthClientSignUp(c, hashOK, reply)
         IN  IF p.reply # "ok" THEN HttpError(p, StatusInternalServerError)
             ELSE [p EXCEPT !.pc = "done", !.resp.status = StatusCreated]

signUp ==
    /\ cur.pc = "cognito"
    /\ cur.path = <<"signup">> /\ cur.req.method = "POST"
    /\ \E hashOK \in BOOLEAN, fault \in BOOLEAN :
         LET c == Called(Called(cur, "cognitoMux"), "handler")
         IN  cur' = SignUpHandler(c, hashOK, AccountCall(c.req.body, fault))
    /\ UNCHANGED <<now, tokens, last, limVars, idp, jar>>

\* A bug: the provider call is made with no hash computed.
HashThenCallNoHash(c, call, hashOK, reply) ==
    IF c.req.body = "malformed" THEN HttpError(c, StatusBadRequest)
    ELSE LET p == [Called(c, call) EXCEPT !.reply = reply.kind]
         IN  IF reply.err THEN HttpError(p, StatusInternalServerError)
             ELSE [p EXCEPT !.pc = "done", !.resp.status = StatusOK]

\* The common shape of ConfirmSignup, RequestVerificationCode, ForgotPassword
\* and ConfirmForgottenPassword: decode the body, compute the secret hash,
\* make one provider call with it, 200 on success.
HashThenCall(c, call, hashOK, reply) ==
    IF c.req.body = "malformed" THEN HttpError(c, StatusBadRequest)
    ELSE LET h == Called(c, "CalculateSecretHash")
             p == CallWithHash(h, call, reply)
         IN  IF ~hashOK THEN HttpError(h, StatusInternalServerError)
             ELSE IF reply.err THEN HttpError(p, StatusInternalServerError)
             ELSE [p EXCEPT !.pc = "done", !.resp.status = StatusOK]

\* One request served by a handler of that shape registered at route.
Serve(route, call) ==
    /\ cur.pc = "cognito"
    /\ cur.path = route /\ cur.req.method = "POST"
    /\ \E hashOK \in BOOLEAN, fault \in BOOLEAN :
         LET c == Called(Called(cur, "cognitoMux"), "handler")
             called == c.req.body # "malformed" /\ hashOK
             reply == IF called THEN AccountCall(c.req.body, fault)
                                ELSE NotCalled
         IN  cur' = HashThenCall(c, call, hashOK, reply)
    /\ UNCHANGED <<now, tokens, last, limVars, idp, jar>>

ConfirmSignup == Serve(<<"confirm-signup">>, "ConfirmSignUp")

RequestVerificationCode ==
    Serve(<<"request-verification-code">>, "ResendConfirmationCode")

ForgotPassword == Serve(<<"forgot-password">>, "ForgotPassword")

ConfirmForgottenPassword ==
    Serve(<<"confirm-forgot-password">>, "ConfirmForgotPassword")

----------------------------------------------------------------------------
(* Spec: one request at a time through the whole pipeline *)

Init ==
    /\ now = 0
    /\ tokens = Burst * OneToken
    /\ last = 0
    /\ waiting = 0 /\ passed = 0 /\ refused = 0
    /\ lastCall = -1
    /\ winStart = 0 /\ winCount = 0
    /\ cur = Idle
    /\ idp = [issued |-> 0, revoked |-> 0]
    /\ jar = [rt |-> 0, sub |-> ""]

Next ==
    \/ Accept
    \/ rateLimitMiddleware
    \/ corsMiddleware
    \/ mainMux
    \/ TokenAuthMiddleware
    \/ dbMuxMiss
    \/ health
    \/ getUser
    \/ cognitoMuxMiss
    \/ SignIn
    \/ RefreshToken
    \/ SignOut
    \/ signUp
    \/ ConfirmSignup
    \/ RequestVerificationCode
    \/ ForgotPassword
    \/ ConfirmForgottenPassword
    \/ Deliver
    \/ Tick

Spec == Init /\ [][Next]_vars

----------------------------------------------------------------------------
(* LimiterSpec: concurrent requests at the limiter *)

\* A request reaches the server; its goroutine has not yet called Allow.
Arrive ==
    /\ waiting + passed + refused < MaxArrivals
    /\ waiting' = waiting + 1
    /\ UNCHANGED <<now, tokens, last, passed, refused, lastCall, winStart,
                   winCount, cur, idp, jar>>

\* rateLimitMiddleware for one of the waiting requests.
rateLimitWaiting ==
    /\ waiting > 0
    /\ waiting' = waiting - 1
    /\ lastCall' = now
    /\ \E ok \in BOOLEAN :
         /\ Allow(ok)
         /\ passed' = IF ok THEN passed + 1 ELSE passed
         /\ refused' = IF ok THEN refused ELSE refused + 1
         /\ winCount' = IF ok THEN winCount + 1 ELSE winCount
    /\ UNCHANGED <<now, winStart, cur, idp, jar>>

\* An observer starts counting the admissions of a window at the current time.
StartWindow ==
    /\ winStart < now
    /\ winStart' = now
    /\ winCount' = 0
    /\ UNCHANGED <<now, tokens, last, waiting, passed, refused, lastCall,
                   cur, idp, jar>>

NextLimiter == Arrive \/ rateLimitWaiting \/ Tick \/ StartWindow

LimiterSpec == Init /\ [][NextLimiter]_vars

----------------------------------------------------------------------------
(* Properties *)

Done == cur.pc = "done"

\* a is in the trace of c, and b only after it.
Before(c, a, b) ==
    \E i \in 1..Len(c.trace) :
       /\ c.trace[i] = a
       /\ \A j \in 1..Len(c.trace) : c.trace[j] = b => i < j

\* The scheme Bearer, one space, one token.
BearerForm(h) ==
    Len(h) = 3 /\ h[1] = "Bearer" /\ h[2] = SP /\ h[3] \notin {SP, TAB}

InTokenAuth == Has(cur, "TokenAuthMiddleware")

\* Nothing behind the header check happened for the request.
NothingDownstream ==
    /\ cur.fetch = "none" /\ cur.parse = "none" /\ ~cur.ctx
    /\ ~Has(cur, "jwk.Fetch") /\ ~Has(cur, "jwt.Parse") /\ ~Has(cur, "WithValue")
    /\ ~Has(cur, "dbMux") /\ ~Has(cur, "handler")

\* C1: a request that reaches TokenAuthMiddleware without an Authorization
\* header is answered 401, and for it the key set is not fetched, the token
\* is not parsed and the wrapped handler is not invoked.
C1_MissingHeader401 ==
    (InTokenAuth /\ cur.req.auth = <<>>) =>
        /\ Done
        /\ cur.resp.status = StatusUnauthorized
        /\ NothingDownstream

C1_Witness ==
    /\ Done /\ InTokenAuth /\ cur.req.auth = <<>>
    /\ cur.resp.status = StatusUnauthorized

\* C2: a request that reaches TokenAuthMiddleware with a header that is not
\* empty and not "Bearer <token>" is answered 400, whatever the key-set fetch
\* and the verification would give, and the wrapped handler is not invoked.
C2_MalformedHeader400 ==
    (InTokenAuth /\ cur.req.auth # <<>> /\ ~BearerForm(cur.req.auth)) =>
        /\ Done
        /\ cur.resp.status = StatusBadRequest
        /\ NothingDownstream

C2_Witness ==
    /\ Done /\ InTokenAuth
    /\ cur.req.auth = <<"bearer", SP, "tok">>
    /\ cur.resp.status = StatusBadRequest

\* C3 (as claimed): a well-formed header, the key set fetched, the token
\* failing verification: the answer is 401, and the handler is not invoked.
C3_VerifyFailure401 ==
    (InTokenAuth /\ BearerForm(cur.req.auth) /\ cur.fetch = "ok"
       /\ cur.parse = "err") =>
        /\ cur.resp.status = StatusUnauthorized
        /\ ~Has(cur, "dbMux") /\ ~Has(cur, "handler")

\* C4: the wrapped handler of a /db/ route runs only after the header check
\* passed, the key set was fetched, the token verified and the claims were
\* put in the request's context, in this order; a request under /aws-cognito/
\* never passes the token verifier.
C4_AuthBeforeHandler ==
    /\ (cur.req.path[1] = "db" /\ (Has(cur, "dbMux") \/ Has(cur, "handler"))) =>
          /\ BearerForm(cur.req.auth)
          /\ cur.fetch = "ok" /\ cur.parse = "claims" /\ cur.ctx
          /\ Before(cur, "TokenAuthMiddleware", "jwk.Fetch")
          /\ Before(cur, "jwk.Fetch", "jwt.Parse")
          /\ Before(cur, "jwt.Parse", "WithValue")
          /\ Before(cur, "WithValue", "dbMux")
          /\ Before(cur, "WithValue", "handler")
    /\ (cur.pc # "idle" /\ cur.req.path[1] = "aws-cognito") =>
          /\ ~InTokenAuth /\ ~Has(cur, "jwk.Fetch") /\ ~Has(cur, "jwt.Parse")
          /\ cur.fetch = "none" /\ cur.parse = "none" /\ ~cur.ctx

C4_Witness ==
    /\ Done /\ cur.req.path = <<"db", "health">> /\ Has(cur, "handler")
    /\ cur.resp.status = StatusOK /\ cur.ctx

\* C5: from a full bucket, of the requests decided at the first instant
\* exactly min(5, their number) are admitted and the others refused; a call
\* of Allow that comes 1/15 s or more after the call before it is admitted;
\* and the admissions of a window never exceed 5 + 15 * its length.
C5_Burst ==
    now = 0 => passed = Min(Burst, passed + refused)

C5_Window ==
    winCount * TicksPerSecond <= Burst * TicksPerSecond + Rate * (now - winStart)

C5_Refill ==
    (waiting' < waiting /\ lastCall >= 0
        /\ Rate * (now - lastCall) >= TicksPerSecond) => passed' = passed + 1

\* C5: the burst, the window bound and the refill after 1/15 s, together.
C5_TokenBucket == [](C5_Burst /\ C5_Window) /\ [][C5_Refill]_vars

C5_Witness ==
    /\ passed = Burst + 1 /\ refused >= 1
    /\ lastCall >= TicksPerToken

\* C6: one bucket for all requests; however the waiting requests are
\* scheduled, the bucket never goes below zero, the tokens taken and the
\* tokens left never exceed the 5 of the start plus the refill, and of those
\* that call Allow at the same instant at most 5 pass.
C6_NoDoubleAdmission ==
    /\ tokens >= 0
    /\ passed * OneToken + tokens <= Burst * OneToken + Rate * now
    /\ now = 0 => passed <= Burst

C6_Witness ==
    /\ now = 0 /\ passed = Burst /\ refused >= 1 /\ waiting >= 1

NoDownstream ==
    /\ ~Has(cur, "mainMux") /\ ~Has(cur, "TokenAuthMiddleware")
    /\ ~Has(cur, "dbMux") /\ ~Has(cur, "cognitoMux") /\ ~Has(cur, "handler")

\* C7 (as claimed): every OPTIONS request is answered 200 without a body and
\* reaches no downstream handler.
C7_PreflightAlways200 ==
    (Done /\ cur.req.method = "OPTIONS") =>
        /\ cur.resp.status = StatusOK /\ cur.resp.body = NoBody
        /\ NoDownstream

\* C7 (amended): an OPTIONS request that the limiter admits is answered 200
\* without a body by corsMiddleware; one that the limiter refuses is answered
\* 429 before corsMiddleware runs; neither reaches a downstream handler.
C7_PreflightBehindLimiter ==
    cur.req.method = "OPTIONS" =>
        /\ NoDownstream
        /\ (Done /\ Has(cur, "cors")) =>
              cur.resp.status = StatusOK /\ cur.resp.body = NoBody
        /\ (Done /\ ~Has(cur, "cors")) =>
              cur.resp.status = StatusTooManyRequests
        /\ Has(cur, "cors") => Done

C7_Witness ==
    /\ Done /\ cur.req.method = "OPTIONS" /\ cur.req.path = <<"db", "health">>
    /\ cur.resp.status = StatusOK /\ Has(cur, "cors")

Responded == Done /\ cur.resp.status # NoStatus

\* C8 (as claimed): every response to a request of an allowed origin carries
\* Access-Control-Allow-Origin with that origin.
C8_CorsOnEveryResponse ==
    (Responded /\ cur.req.origin \in allowedOrigins) =>
        cur.resp.acao = cur.req.origin

\* C8 (amended): every response to a request that the limiter admitted
\* carries the CORS headers, with the origin if it is allowed; the 429 of the
\* limiter carries none.
C8_CorsBehindLimiter ==
    Responded =>
        /\ cur.resp.status # StatusTooManyRequests =>
              /\ cur.req.origin \in allowedOrigins =>
                    cur.resp.acao = cur.req.origin
              /\ cur.resp.acac = "true"
              /\ cur.resp.acam # "" /\ cur.resp.acah # ""
        /\ cur.resp.status = StatusTooManyRequests =>
              /\ cur.resp.acao = "" /\ cur.resp.acac = ""
              /\ cur.resp.acam = "" /\ cur.resp.acah = ""

C8_Witness ==
    /\ Responded /\ cur.resp.status = StatusInternalServerError
    /\ cur.req.origin = "http://localhost:5173"
    /\ cur.resp.acao = "http://localhost:5173"

PastCors == Has(cur, "cors") /\ ~(Done /\ cur.resp.status = NoStatus)

Proceeds == cur.pc = "mux" \/ Has(cur, "mainMux")

\* C9 (as claimed): an allowed origin is echoed and credentials are allowed;
\* any other origin gets neither header, and its request proceeds.
C9_CredentialsOnlyIfAllowed ==
    PastCors =>
        IF cur.req.origin \in allowedOrigins
          THEN cur.resp.acao = cur.req.origin /\ cur.resp.acac = "true"
          ELSE cur.resp.acao = "" /\ cur.resp.acac = "" /\ Proceeds

\* C9 (amended): an allowed origin is echoed; any other origin gets no
\* Access-Control-Allow-Origin; credentials are allowed in both cases; and a
\* request that is not a preflight proceeds to the next handler.
C9_OriginEchoed ==
    PastCors =>
        /\ cur.resp.acao = IF cur.req.origin \in allowedOrigins
                             THEN cur.req.origin ELSE ""
        /\ cur.resp.acac = "true"
        /\ cur.req.method # "OPTIONS" => Proceeds
        /\ cur.req.method = "OPTIONS" => ~Proceeds

C9_Witness ==
    /\ PastCors /\ cur.req.origin = "https://unlisted.example"
    /\ cur.resp.acao = "" /\ cur.resp.acac = "true"
    /\ Has(cur, "mainMux")

At(route) ==
    /\ Done /\ Has(cur, "handler")
    /\ cur.req.path = <<"aws-cognito", route>>

NoCookieSet == cur.resp.setRT = "none" /\ cur.resp.setSub = "none"

\* The refresh token and the subject that the request carries are a session
\* the provider holds.
LiveSession ==
    /\ cur.req.rt > idp.revoked /\ cur.req.rt <= idp.issued
    /\ cur.req.sub = TheSub

\* C10: a SignIn that the provider accepts is answered 200 with the tokens
\* and sets both cookies, to the refresh token just issued and the subject; a
\* RefreshToken with the cookies of a live session is answered 200 unless the
\* hash or the call fails; a SignOut that the provider accepts is answered 200
\* and sets both cookies expired, and revokes the sessions; and a
\* RefreshToken with a revoked refresh token is never answered 200.
C10_SessionSequence ==
    /\ (At("sign-in") /\ cur.reply = "ok") =>
          /\ cur.resp.status = StatusOK /\ cur.resp.body = "tokens"
          /\ cur.resp.setRT = "fresh" /\ cur.resp.rtValue = idp.issued
          /\ cur.resp.rtValue > idp.revoked
          /\ cur.resp.setSub = "fresh" /\ cur.resp.subValue = TheSub
    /\ (At("refresh-token") /\ LiveSession /\ cur.reply # "fault"
           /\ Has(cur, "AdminInitiateAuth")) =>
          /\ cur.resp.status = StatusOK /\ cur.resp.body = "tokens"
          /\ NoCookieSet
    /\ (At("sign-out") /\ cur.reply = "ok") =>
          /\ cur.resp.status = StatusOK
          /\ cur.resp.setRT = "expired" /\ cur.resp.setSub = "expired"
          /\ idp.revoked = idp.issued
    /\ (At("refresh-token") /\ ~LiveSession) =>
          cur.resp.status # StatusOK

C10_Witness ==
    /\ At("refresh-token") /\ cur.req.rt = 1 /\ cur.req.sub = TheSub
    /\ idp.issued >= 1 /\ idp.revoked >= 1
    /\ cur.reply = "rejected"
    /\ cur.resp.status = StatusInternalServerError

\* C11: a response sets the cookie refreshToken exactly when it sets the
\* cookie userSub, and in the same way: both fresh, which only SignIn does,
\* or both expired, which only SignOut does; so the client that applies every
\* response holds both cookies or neither.
C11_CookiePair ==
    /\ cur.resp.setRT = cur.resp.setSub
    /\ cur.resp.setRT = "fresh" =>
          /\ cur.req.path = <<"aws-cognito", "sign-in">>
          /\ cur.resp.rtValue # 0 /\ cur.resp.subValue # ""
    /\ cur.resp.setRT = "expired" =>
          cur.req.path = <<"aws-cognito", "sign-out">>
    /\ (jar.rt = 0) <=> (jar.sub = "")

\* A client that holds the pair is sent the response that clears it.
C11_Witness ==
    /\ jar.rt # 0 /\ jar.sub = TheSub
    /\ At("sign-out") /\ cur.resp.status = StatusOK
    /\ cur.resp.setRT = "expired" /\ cur.resp.setSub = "expired"

\* C12: no response body has a field for the refresh token; the body of a
\* SignIn or RefreshToken answered 200 has the access token, the ID token,
\* the token type and the expiry and nothing else, and every other body is
\* plain text; the refresh token is sent only as the value of the cookie
\* refreshToken, which is set HttpOnly, Secure and SameSite=None.
C12_RefreshTokenOnlyInCookie ==
    /\ "refreshToken" \notin cur.resp.fields
    /\ cur.resp.body = "tokens" <=>
          cur.resp.fields = {"accessToken", "idToken", "tokenType", "expiresIn"}
    /\ cur.resp.body # "tokens" => cur.resp.fields = {}
    /\ cur.resp.body = "tokens" =>
          /\ cur.resp.status = StatusOK
          /\ cur.req.path \in {<<"aws-cognito", "sign-in">>,
                                <<"aws-cognito", "refresh-token">>}
    /\ cur.resp.rtValue # 0 =>
          /\ cur.resp.setRT = "fresh"
          /\ {"HttpOnly", "Secure", "SameSite=None"} \subseteq cur.resp.cookieAttrs

\* A SignIn answered with the tokens in the body and the refresh token in
\* the cookie.
C12_Witness ==
    /\ At("sign-in") /\ cur.resp.body = "tokens"
    /\ cur.resp.setRT = "fresh" /\ cur.resp.rtValue # 0

\* The calls to the identity provider.
ProviderCalls ==
    {"SignUp", "ConfirmSignUp", "ResendConfirmationCode", "AdminInitiateAuth",
     "AdminUserGlobalSignOut", "ForgotPassword", "ConfirmForgotPassword"}

\* The secret hash was computed before the call was made and went with it.
HashedCall(call) ==
    Has(cur, call) =>
       /\ Before(cur, "CalculateSecretHash", call)
       /\ cur.hashSent

\* C13 (as claimed): every call to the identity provider, of each of the
\* eight operations, is made after the secret hash was computed and with it.
C13_HashBeforeEveryCall == \A call \in ProviderCalls : HashedCall(call)

\* C13 (amended): every call to the identity provider but SignOut's is made
\* after the secret hash was computed and with it; SignOut makes its call,
\* AdminUserGlobalSignOut, with no hash computed and none sent.
C13_HashBeforeCallButSignOut ==
    /\ \A call \in ProviderCalls \ {"AdminUserGlobalSignOut"} : HashedCall(call)
    /\ Has(cur, "AdminUserGlobalSignOut") =>
          /\ cur.req.path = <<"aws-cognito", "sign-out">>
          /\ ~Has(cur, "CalculateSecretHash") /\ ~cur.hashSent

\* A ForgotPassword whose provider call was made and accepted.
C13_Witness ==
    /\ At("forgot-password") /\ Has(cur, "ForgotPassword")
    /\ cur.hashSent /\ cur.resp.status = StatusOK

\* C14: a SignIn whose credentials the provider rejects is answered 401 and
\* sets no cookie.
C14_RejectedSignIn401 ==
    (At("sign-in") /\ cur.reply = "rejected") =>
       /\ cur.resp.status = StatusUnauthorized
       /\ NoCookieSet

\* No call to the identity provider was made for the request.
NoProviderCall ==
    /\ cur.reply = "none" /\ ~cur.hashSent
    /\ \A call \in ProviderCalls : ~Has(cur, call)

\* C15: a RefreshToken request without the refreshToken cookie or without
\* the userSub cookie is answered with an error, no hash computed and no
\* provider call made; and no response to a RefreshToken request, whatever its
\* outcome, sets a cookie.
C15_RefreshNeedsBothCookies ==
    /\ (At("refresh-token") /\ (cur.req.rt = 0 \/ cur.req.sub = "")) =>
          /\ cur.resp.status = StatusInternalServerError
          /\ cur.resp.body # "tokens"
          /\ ~Has(cur, "CalculateSecretHash")
          /\ NoProviderCall
    /\ cur.req.path = <<"aws-cognito", "refresh-token">> =>
          /\ NoCookieSet
          /\ ApplyCookies(jar, cur.resp) = jar

\* A RefreshToken request with the refreshToken cookie and without userSub.
C15_Witness ==
    /\ At("refresh-token") /\ cur.req.rt # 0 /\ cur.req.sub = ""
    /\ cur.resp.status = StatusInternalServerError

\* C16: a request for which the fetch of the key set fails is answered 500,
\* its token is not parsed and the wrapped handler is not invoked; the key
\* set a token is parsed with is the one fetched for the same request, and
\* what TokenAuthMiddleware does with a request is decided by that request's
\* header, fetch and parse alone, whatever happened to the requests before it.
C16_FetchFailure500 ==
    /\ cur.fetch = "err" =>
          /\ Done /\ cur.resp.status = StatusInternalServerError
          /\ cur.parse = "none" /\ ~Has(cur, "jwt.Parse")
          /\ ~cur.ctx /\ ~Has(cur, "WithValue")
          /\ ~Has(cur, "dbMux") /\ ~Has(cur, "handler")
    /\ (Has(cur, "jwt.Parse") \/ cur.ctx \/ Has(cur, "dbMux")) =>
          /\ cur.fetch = "ok"
          /\ Before(cur, "jwk.Fetch", "jwt.Parse")
    /\ cur.fetch # "none" <=> Has(cur, "jwk.Fetch")
    /\ (InTokenAuth /\ cur.fetch = "ok" /\ cur.parse = "ok") => cur.ctx

\* A request with a well-formed header whose key-set fetch failed.
C16_Witness ==
    /\ InTokenAuth /\ BearerForm(cur.req.auth)
    /\ cur.fetch = "err" /\ cur.resp.status = StatusInternalServerError

\* C17: for a request answered 429 nothing but the limiter ran: not
\* corsMiddleware, which set no header, not a mux, not TokenAuthMiddleware,
\* not a handler; no key set was fetched and no provider call made.
C17_RateLimitedDoesNothing ==
    cur.resp.status = StatusTooManyRequests =>
       /\ Done /\ cur.trace = <<"limiter">>
       /\ cur.resp.acao = "" /\ cur.resp.acac = ""
       /\ cur.resp.acam = "" /\ cur.resp.acah = ""
       /\ cur.fetch = "none" /\ cur.parse = "none" /\ ~cur.ctx
       /\ NoProviderCall /\ NoCookieSet

\* A request refused by the limiter that carries a well-formed token for a
\* protected route.
C17_Witness ==
    /\ cur.resp.status = StatusTooManyRequests
    /\ cur.req.path = <<"db", "user">> /\ cur.req.method = "GET"
    /\ BearerForm(cur.req.auth)

\* The number of calls in the trace of c that are in the set calls.
Count(c, calls) == Cardinality({i \in 1..Len(c.trace) : c.trace[i] \in calls})

\* C18: for one request at most one call to the identity provider and at
\* most one fetch of the key set are made; when the call or the fetch fails
\* the request is answered 500 and the failed call is the last one made for
\* it.
C18_NoRetries ==
    /\ Count(cur, ProviderCalls) <= 1
    /\ Count(cur, {"jwk.Fetch"}) <= 1
    /\ cur.reply \in {"fault", "rejected"} =>
          /\ Done /\ cur.resp.status = StatusInternalServerError
          /\ cur.trace[Len(cur.trace)] \in ProviderCalls
    /\ cur.fetch = "err" =>
          /\ Done /\ cur.resp.status = StatusInternalServerError
          /\ cur.trace[Len(cur.trace)] = "jwk.Fetch"

\* A SignIn whose provider call failed.
C18_Witness ==
    /\ At("sign-in") /\ cur.reply = "fault"
    /\ Count(cur, ProviderCalls) = 1
    /\ cur.resp.status = StatusInternalServerError

\* C19: a SignOut without the userSub cookie is answered with an error and
\* makes no provider call; one whose provider call fails is answered with an
\* error; neither sets a cookie, so the client keeps the cookies it has.  The
\* cookies are set expired only in the 200 that follows the provider's
\* acceptance, and that 200 is given with or without a refreshToken cookie.
C19_SignOutFailureKeepsCookies ==
    /\ (At("sign-out") /\ cur.req.sub = "") =>
          /\ cur.resp.status = StatusInternalServerError
          /\ NoProviderCall
    /\ (At("sign-out") /\ cur.reply \in {"fault", "rejected"}) =>
          cur.resp.status = StatusInternalServerError
    /\ (cur.req.path = <<"aws-cognito", "sign-out">>
           /\ cur.resp.status # StatusOK) =>
          /\ NoCookieSet
          /\ ApplyCookies(jar, cur.resp) = jar
    /\ (cur.req.path = <<"aws-cognito", "sign-out">> /\ ~NoCookieSet) =>
          /\ cur.reply = "ok" /\ Has(cur, "AdminUserGlobalSignOut")
          /\ cur.resp.status = StatusOK
    /\ (At("sign-out") /\ cur.reply = "ok") =>
          /\ cur.resp.status = StatusOK
          /\ cur.resp.setRT = "expired" /\ cur.resp.setSub = "expired"

\* A client that holds the pair and whose SignOut fails at the provider.
C19_Witness ==
    /\ At("sign-out") /\ cur.reply = "fault"
    /\ jar.rt # 0 /\ jar.sub = TheSub
    /\ cur.resp.status = StatusInternalServerError

\* The ways the ID token of an accepted sign-in can be unusable.
BadIdToken == {"segments", "base64", "json", "nosub"}

====
